---- MODULE Spec2Model ----
(***************************************************************************)
(* The background worker of the XApi extension (src/background.ts): the    *)
(* webRequest lifecycle listeners that correlate the events of one request *)
(* in pendingRequests, the saveQueue / processQueue write serializer over  *)
(* chrome.storage.local `logs`, the isRecording toggle, and the            *)
(* declarativeNetRequest session rule with the fixed id 1.                 *)
(*                                                                         *)
(* JavaScript runs every listener and callback to completion on one event  *)
(* loop, so each listener body and each callback body is one action.  The  *)
(* asynchronous chrome.* calls are the suspension points: a call that is   *)
(* issued and not yet called back is a value of toggleReads, passes,       *)
(* timers or ruleCalls, and the host may resume them in any order.         *)
(*                                                                         *)
(* Objects are functions over the keys they own, so that a missing key     *)
(* (an entry that has no url yet) differs from a key that is set, and the  *)
(* object spread {...a, ...b} is Spread(a, b).  Strings that the code      *)
(* splits or matches by prefix (urls, initiators) are sequences of tokens. *)
(***************************************************************************)
EXTENDS Integers, Sequences, FiniteSets, Bags, TLC

VARIABLES
    isRecording,      \* chrome.storage.local: isRecording
    logs,             \* chrome.storage.local: logs
    pendingRequests,  \* requestId -> the record under construction
    isSaving,         \* the saving flag of processQueue
    saveQueue,        \* the snapshots saveLog pushed, oldest first
    toggleReads,      \* listeners suspended in storage.local.get(['isRecording'])
    passes,           \* processQueue passes suspended in storage get / set
    timers,           \* the setTimeout purges onCompleted armed, by requestId
    sessionRules,     \* declarativeNetRequest: the active session rules
    ruleCalls,        \* updateSessionRules calls not yet settled
    responses,        \* what sendResponse was called with, per message
    history,          \* the lifecycle events delivered so far, a bag
    clock,            \* the time Date.now() returns: the inputs received so far
    enqueued,         \* the number of saveLog pushes so far
    started,          \* the snapshots in the order their pass began
    finished,         \* the snapshots in the order their pass ended, and how
    applied,          \* the rule call the backend applied last
    nToggles,         \* how often the user switched isRecording
    nInstalls,        \* how often onInstalled fired
    nMessages,        \* how many control messages arrived
    settled,          \* the rule calls the backend settled, in order, and how
    expected          \* `logs` had every snapshot been applied when enqueued

vars ==
    << isRecording, logs, pendingRequests, isSaving, saveQueue, toggleReads,
       passes, timers, sessionRules, ruleCalls, responses, history, clock,
       enqueued, started, finished, applied, nToggles, nInstalls, nMessages,
       settled, expected >>

logVars ==
    << isRecording, logs, pendingRequests, isSaving, saveQueue, toggleReads,
       passes, timers, history, enqueued, started, finished, nToggles,
       expected >>

ruleVars == << sessionRules, ruleCalls, responses, applied, nMessages, settled >>

-----------------------------------------------------------------------------
(* Bounds of the model. *)

MaxIds == 2
MaxInputs == 3

(* Program constants. *)

MAX_LOGS == 100
RULE_ID == 1
RULE_PRIORITY == 999

EXTENSION_ID == "xapi-extension-id"

-----------------------------------------------------------------------------
(* Values. *)

Ids == 1 .. MaxIds

EmptyObject == [k \in {} |-> k]

Has(o, k) == k \in DOMAIN o

\* {...a, ...b}: the keys of both, b's value where b owns the key.
Spread(a, b) ==
    [k \in (DOMAIN a) \cup (DOMAIN b) |-> IF k \in DOMAIN b THEN b[k] ELSE a[k]]

\* o with o[k] = v assigned (the key is created when missing).
Assign(o, k, v) == [j \in (DOMAIN o) \cup {k} |-> IF j = k THEN v ELSE o[j]]

\* delete o[k]
Delete(o, k) == [j \in (DOMAIN o) \ {k} |-> o[j]]

Min(a, b) == IF a <= b THEN a ELSE b

\* Array.prototype.slice(0, n)
Slice(s, n) == SubSeq(s, 1, Min(n, Len(s)))

\* a findIndex whose test never matches: every identifier counts as new
FindIndexMiss(s, id) == 0

\* Array.prototype.findIndex(l => l.id === id), 0 for JavaScript's -1.
FindIndex(s, id) ==
    IF \E i \in 1 .. Len(s) : s[i].id = id
    THEN CHOOSE i \in 1 .. Len(s) :
            /\ s[i].id = id
            /\ \A j \in 1 .. (i - 1) : s[j].id # id
    ELSE 0

\* String.prototype.startsWith on a tokenised string.
StartsWith(s, token) == Len(s) > 0 /\ s[1] = token

\* String.prototype.includes on a tokenised string.
Includes(s, token) == \E i \in 1 .. Len(s) : s[i] = token

\* url.split('?')[0]: the tokens before the first "?".
SplitQuery(url) ==
    IF Includes(url, "?")
    THEN SubSeq(url, 1, (CHOOSE i \in 1 .. Len(url) :
                            /\ url[i] = "?"
                            /\ \A j \in 1 .. (i - 1) : url[j] # "?") - 1)
    ELSE url

UrlA == << "https://", "api.x/y" >>
UrlB == << "https://", "api.x/z", "?", "q=1" >>
UrlExt == << "chrome-extension://", EXTENSION_ID, "/popup" >>
InitiatorExt == << "chrome-extension://", EXTENSION_ID >>

-----------------------------------------------------------------------------
(* The details objects the webRequest layer hands to the listeners. *)

BeginDetails(id) ==
    { [requestId |-> id, url |-> UrlA, method |-> "GET", type |-> "xmlhttprequest"],
      [requestId |-> id, url |-> UrlB, method |-> "POST", type |-> "xmlhttprequest",
       requestBody |-> [raw |-> << [bytes |-> "utf8"] >>]],
      [requestId |-> id, url |-> UrlExt, method |-> "GET", type |-> "xmlhttprequest"],
      [requestId |-> id, url |-> UrlA, method |-> "GET", type |-> "main_frame"] }

SendHeadersDetails(id) ==
    { [requestId |-> id, url |-> UrlA, type |-> "xmlhttprequest",
       requestHeaders |-> << [name |-> "Authorization", value |-> "Bearer t"] >>],
      [requestId |-> id, url |-> UrlA, type |-> "xmlhttprequest",
       requestHeaders |-> << [name |-> "Accept"], [name |-> "Authorization", value |-> "Basic u"] >>] }

HeadersReceivedDetails(id) ==
    { [requestId |-> id, url |-> UrlA, type |-> "xmlhttprequest",
       responseHeaders |-> << [name |-> "Content-Type", value |-> "application/json"] >>],
      [requestId |-> id, url |-> UrlA, type |-> "xmlhttprequest",
       initiator |-> InitiatorExt,
       responseHeaders |-> << [name |-> "Content-Type", value |-> "text/html"] >>] }

CompletedDetails(id) ==
    { [requestId |-> id, url |-> UrlA, type |-> "xmlhttprequest", statusCode |-> 200],
      [requestId |-> id, url |-> UrlA, type |-> "main_frame", statusCode |-> 404] }

ErrorDetails(id) ==
    { [requestId |-> id, url |-> UrlA, type |-> "xmlhttprequest",
       error |-> "net::ERR_FAILED"] }

\* details.<list>?.forEach(h => { headers[h.name] = h.value || ''; })
RECURSIVE HeaderMap(_)
HeaderMap(list) ==
    IF list = << >>
    THEN EmptyObject
    ELSE LET h == list[Len(list)]
             v == IF Has(h, "value") /\ h.value # "" THEN h.value ELSE ""
         IN Assign(HeaderMap(SubSeq(list, 1, Len(list) - 1)), h.name, v)

isExtensionRequest(details) ==
    \/ (Has(details, "initiator") /\ Includes(details.initiator, EXTENSION_ID))
    \/ StartsWith(details.url, "chrome-extension://")
    \/ StartsWith(details.url, "data:")
    \/ StartsWith(details.url, "blob:")

isApiRequest(details) == details.type = "xmlhttprequest"

-----------------------------------------------------------------------------
(* The records a worker of an earlier activation left in storage: the      *)
(* in-memory state is lost when the worker is stopped, `logs` is not.      *)

Filler(i) ==
    [id |-> MaxIds + i, status |-> 200, timestamp |-> 0, url |-> UrlA,
     method |-> "GET", type |-> "xmlhttprequest",
     requestHeaders |-> EmptyObject, responseHeaders |-> EmptyObject]

Fillers(n) == [i \in 1 .. n |-> Filler(i)]

OldRecord(id) ==
    [id |-> id, status |-> 0, timestamp |-> 0, url |-> UrlB,
     method |-> "POST", type |-> "xmlhttprequest",
     requestHeaders |-> Assign(EmptyObject, "Cookie", "a=b"),
     responseHeaders |-> EmptyObject]

InitialLogs ==
    { << >>,
      Fillers(MAX_LOGS - 1),
      Fillers(MAX_LOGS - 1) \o << OldRecord(1) >> }

-----------------------------------------------------------------------------
(* The write serializer.  Its operators work on the part of the state that *)
(* saveLog and processQueue own, as a record.                              *)

Serializer ==
    [isSaving |-> isSaving, saveQueue |-> saveQueue, passes |-> passes,
     enqueued |-> enqueued, started |-> started, finished |-> finished]

\* processQueue without the saving flag: a pass starts whenever the queue
\* holds a snapshot.
processQueueNoFlag(s) ==
    IF Len(s.saveQueue) = 0
    THEN s
    ELSE LET item == Head(s.saveQueue)
         IN [s EXCEPT !.isSaving = TRUE,
                      !.saveQueue = Tail(s.saveQueue),
                      !.passes = @ \cup {[sn |-> item.sn, logToSave |-> item.log,
                                          stage |-> "get"]},
                      !.started = Append(@, item.sn)]

\* processQueue with pop() for shift(): the newest snapshot is taken first.
processQueuePop(s) ==
    IF s.isSaving \/ Len(s.saveQueue) = 0
    THEN s
    ELSE LET item == s.saveQueue[Len(s.saveQueue)]
         IN [s EXCEPT !.isSaving = TRUE,
                      !.saveQueue = SubSeq(s.saveQueue, 1, Len(s.saveQueue) - 1),
                      !.passes = @ \cup {[sn |-> item.sn, logToSave |-> item.log,
                                          stage |-> "get"]},
                      !.started = Append(@, item.sn)]

processQueue(s) ==
    IF s.isSaving \/ Len(s.saveQueue) = 0
    THEN s
    ELSE LET item == Head(s.saveQueue)
         IN [s EXCEPT !.isSaving = TRUE,
                      !.saveQueue = Tail(s.saveQueue),
                      !.passes = @ \cup {[sn |-> item.sn, logToSave |-> item.log,
                                          stage |-> "get"]},
                      !.started = Append(@, item.sn)]

\* saveLog without the queue: a snapshot that arrives during a pass is not kept
saveLogIfIdle(s, log) ==
    IF s.isSaving
    THEN [s EXCEPT !.enqueued = @ + 1]
    ELSE processQueue([s EXCEPT !.saveQueue = Append(@, [sn |-> s.enqueued + 1,
                                                         log |-> Spread(EmptyObject, log)]),
                                !.enqueued = @ + 1])

saveLog(s, log) ==
    processQueue([s EXCEPT !.saveQueue = Append(@, [sn |-> s.enqueued + 1,
                                                    log |-> Spread(EmptyObject, log)]),
                           !.enqueued = @ + 1])

\* the drop branch returning without `isSaving = false` and without
\* restarting processQueue
ReleaseStuckOnDrop(s, p, how) ==
    IF how = "dropped"
    THEN [s EXCEPT !.passes = @ \ {p},
                   !.finished = Append(@, [sn |-> p.sn, id |-> p.logToSave.id,
                                           how |-> how])]
    ELSE LET t == [s EXCEPT !.isSaving = FALSE,
                            !.passes = @ \ {p},
                            !.finished = Append(@, [sn |-> p.sn, id |-> p.logToSave.id,
                                                    how |-> how])]
         IN IF Len(t.saveQueue) > 0 THEN processQueue(t) ELSE t

\* the queue holding the pending entries themselves (push(log) for
\* push({ ...log })): the pass that is started next sees its entry as it is now
ReleaseByReference(s, p, how) ==
    LET t == [s EXCEPT !.isSaving = FALSE,
                       !.passes = @ \ {p},
                       !.finished = Append(@, [sn |-> p.sn, id |-> p.logToSave.id,
                                               how |-> how])]
        u == IF Len(t.saveQueue) > 0 THEN processQueue(t) ELSE t
    IN [u EXCEPT !.passes =
           { IF Has(pendingRequests, q.logToSave.id)
             THEN [q EXCEPT !.logToSave = pendingRequests[q.logToSave.id]]
             ELSE q : q \in @ }]

\* the end of a pass: isSaving = false; if (saveQueue.length > 0) processQueue();
Release(s, p, how) ==
    LET t == [s EXCEPT !.isSaving = FALSE,
                       !.passes = @ \ {p},
                       !.finished = Append(@, [sn |-> p.sn, id |-> p.logToSave.id,
                                               how |-> how])]
    IN IF Len(t.saveQueue) > 0 THEN processQueue(t) ELSE t

\* the url test left out: every snapshot of a new identifier is inserted
HasUrlAlways(log) == TRUE

HasUrl(log) == Has(log, "url") /\ log.url # << >>

\* the merge that moves the merged record to the head of the list
MergeToFront(currentLogs, idx, logToSave) ==
    << Spread(currentLogs[idx], logToSave) >>
       \o SubSeq(currentLogs, 1, idx - 1)
       \o SubSeq(currentLogs, idx + 1, Len(currentLogs))

\* the merge-or-prepend step of the get callback
MergeInto(currentLogs, idx, logToSave) ==
    [currentLogs EXCEPT ![idx] = Spread(currentLogs[idx], logToSave)]

\* the prepend without slice(0, MAX_LOGS)
PrependNoSlice(currentLogs, logToSave) == << logToSave >> \o currentLogs

\* the prepend that makes room by dropping the record after the new one
PrependDropSecond(currentLogs, logToSave) ==
    IF Len(currentLogs) < MAX_LOGS
    THEN << logToSave >> \o currentLogs
    ELSE << logToSave >> \o Tail(currentLogs)

Prepend(currentLogs, logToSave) ==
    Slice(<< logToSave >> \o currentLogs, MAX_LOGS)

\* the body of the get callback as a function of the list read and the
\* snapshot: merge at idx, or drop, or prepend and slice
ApplySnapshot(currentLogs, logToSave) ==
    LET idx == FindIndex(currentLogs, logToSave.id)
    IN IF idx # 0
       THEN MergeInto(currentLogs, idx, logToSave)
       ELSE IF ~HasUrl(logToSave)
       THEN currentLogs
       ELSE Prepend(currentLogs, logToSave)

SetSerializer(s) ==
    /\ isSaving' = s.isSaving
    /\ saveQueue' = s.saveQueue
    /\ passes' = s.passes
    /\ enqueued' = s.enqueued
    /\ started' = s.started
    /\ finished' = s.finished

\* chrome.storage.local.get(['logs'], (result) => { ... })
LogsGetCallback(p) ==
    /\ p \in passes
    /\ p.stage = "get"
    /\ LET currentLogs == logs
           idx == FindIndex(currentLogs, p.logToSave.id)
       IN IF idx # 0
          THEN SetSerializer([Serializer EXCEPT !.passes =
                   (@ \ {p}) \cup {[sn |-> p.sn, logToSave |-> p.logToSave,
                                    stage |-> "set", how |-> "merged",
                                    currentLogs |-> currentLogs,
                                    newLogs |-> MergeInto(currentLogs, idx, p.logToSave)]}])
          ELSE IF ~HasUrl(p.logToSave)
          THEN SetSerializer(Release(Serializer, p, "dropped"))
          ELSE SetSerializer([Serializer EXCEPT !.passes =
                   (@ \ {p}) \cup {[sn |-> p.sn, logToSave |-> p.logToSave,
                                    stage |-> "set", how |-> "prepended",
                                    currentLogs |-> currentLogs,
                                    newLogs |-> Prepend(currentLogs, p.logToSave)]}])
    /\ UNCHANGED << isRecording, logs, pendingRequests, toggleReads, timers,
                    history, clock, nToggles, nInstalls, expected >>
    /\ UNCHANGED ruleVars

\* chrome.storage.local.set({ logs: newLogs }, () => { ... })
LogsSetCallback(p) ==
    /\ p \in passes
    /\ p.stage = "set"
    /\ logs' = p.newLogs
    /\ SetSerializer(Release(Serializer, p, p.how))
    /\ UNCHANGED << isRecording, pendingRequests, toggleReads, timers,
                    history, clock, nToggles, nInstalls, expected >>
    /\ UNCHANGED ruleVars

-----------------------------------------------------------------------------
(* The event correlator. *)

Now == clock

\* the helper without its test: every call starts a new entry
getOrCreatePendingFresh(pending, requestId) ==
    Assign(pending, requestId,
           [id |-> requestId, status |-> 0, timestamp |-> Now,
            requestHeaders |-> EmptyObject, responseHeaders |-> EmptyObject])

\* Internal helper to get or create a pending request object
getOrCreatePending(pending, requestId) ==
    IF Has(pending, requestId)
    THEN pending
    ELSE Assign(pending, requestId,
                [id |-> requestId, status |-> 0, timestamp |-> Now,
                 requestHeaders |-> EmptyObject, responseHeaders |-> EmptyObject])

\* the body of the begin listener's callback, on the pending entry
BeginFields(log, details) ==
    LET a == Assign(Assign(Assign(log, "url", details.url),
                           "method", details.method), "type", details.type)
    IN IF Has(details, "requestBody")
       THEN IF Has(details.requestBody, "raw") /\ Len(details.requestBody.raw) > 0
            THEN Assign(a, "requestBody",
                        IF details.requestBody.raw[1].bytes = "utf8"
                        THEN "decoded text" ELSE "[Binary Data]")
            ELSE IF Has(details.requestBody, "formData")
            THEN Assign(a, "requestBody", details.requestBody.formData)
            ELSE a
       ELSE a

SendHeadersFields(log, details) ==
    Assign(log, "requestHeaders",
           Spread(log.requestHeaders,
                  IF Has(details, "requestHeaders")
                  THEN HeaderMap(details.requestHeaders) ELSE EmptyObject))

HeadersReceivedFields(log, details) ==
    Assign(log, "responseHeaders",
           Spread(log.responseHeaders,
                  IF Has(details, "responseHeaders")
                  THEN HeaderMap(details.responseHeaders) ELSE EmptyObject))

PhaseFields(phase, log, details) ==
    CASE phase = "begin" -> BeginFields(log, details)
      [] phase = "sendHeaders" -> SendHeadersFields(log, details)
      [] phase = "headersReceived" -> HeadersReceivedFields(log, details)

\* the synchronous filter in front of the toggle read
Filtered(phase, details) ==
    IF phase = "begin"
    THEN isExtensionRequest(details) \/ details.type = "ping" \/ ~isApiRequest(details)
    ELSE isExtensionRequest(details) \/ ~isApiRequest(details)

PhaseDetails(phase, id) ==
    CASE phase = "begin" -> BeginDetails(id)
      [] phase = "sendHeaders" -> SendHeadersDetails(id)
      [] phase = "headersReceived" -> HeadersReceivedDetails(id)

AsyncPhases == {"begin", "sendHeaders", "headersReceived"}

Event(phase, details) == [phase |-> phase, details |-> details]

\* onBeforeRequest / onBeforeSendHeaders / onHeadersReceived: the listener
\* filters and then suspends in chrome.storage.local.get(['isRecording']).
Listener(phase, details) ==
    /\ clock' = clock + 1
    /\ history' = history (+) SetToBag({Event(phase, details)})
    /\ toggleReads' =
          IF Filtered(phase, details)
          THEN toggleReads
          ELSE toggleReads (+) SetToBag({[phase |-> phase, details |-> details,
                                         result |-> "pending"]})
    /\ UNCHANGED << isRecording, logs, pendingRequests, isSaving, saveQueue,
                    passes, timers, enqueued, started, finished, nToggles,
                    nInstalls, expected >>
    /\ UNCHANGED ruleVars

\* the storage backend answers a get(['isRecording']) with the value it holds
ToggleRead(r) ==
    /\ BagIn(r, toggleReads)
    /\ r.result = "pending"
    /\ toggleReads' = (toggleReads (-) SetToBag({r}))
                         (+) SetToBag({[r EXCEPT !.result =
                                           IF isRecording THEN "on" ELSE "off"]})
    /\ UNCHANGED << isRecording, logs, pendingRequests, isSaving, saveQueue,
                    passes, timers, history, clock, enqueued, started,
                    finished, nToggles, nInstalls, expected >>
    /\ UNCHANGED ruleVars

\* the toggle test left out of the callback
RecordingAlways(result) == TRUE

\* the callback testing the toggle as it is now besides the value it read
RecordingNow(result) == result = "on" /\ isRecording

\* whether the callback goes on after `if (!result.isRecording) return;`
Recording(result) == result = "on"

\* the callback of the toggle read
ToggleCallback(r) ==
    /\ BagIn(r, toggleReads)
    /\ r.result # "pending"
    /\ toggleReads' = toggleReads (-) SetToBag({r})
    /\ IF Recording(r.result)
       THEN LET id == r.details.requestId
                pending == getOrCreatePending(pendingRequests, id)
                log == PhaseFields(r.phase, pending[id], r.details)
            IN /\ pendingRequests' = Assign(pending, id, log)
               /\ SetSerializer(saveLog(Serializer, log))
               /\ expected' = ApplySnapshot(expected, log)
       ELSE UNCHANGED << pendingRequests, isSaving, saveQueue, passes,
                         enqueued, started, finished, expected >>
    /\ UNCHANGED << isRecording, logs, timers, history, clock, nToggles, nInstalls >>
    /\ UNCHANGED ruleVars

\* the guard of the onCompleted and onErrorOccurred listeners
Tracked(details) ==
    Has(pendingRequests, details.requestId) /\ isApiRequest(details)

\* chrome.webRequest.onCompleted
onCompleted(details) ==
    /\ clock' = clock + 1
    /\ history' = history (+) SetToBag({Event("completed", details)})
    /\ IF Tracked(details)
       THEN LET id == details.requestId
                log == Assign(pendingRequests[id], "status", details.statusCode)
            IN /\ pendingRequests' = Assign(pendingRequests, id, log)
               /\ SetSerializer(saveLog(Serializer, log))
               /\ expected' = ApplySnapshot(expected, log)
               /\ timers' = timers (+) SetToBag({id})
       ELSE UNCHANGED << pendingRequests, isSaving, saveQueue, passes,
                         enqueued, started, finished, timers, expected >>
    /\ UNCHANGED << isRecording, logs, toggleReads, nToggles, nInstalls >>
    /\ UNCHANGED ruleVars

\* chrome.webRequest.onErrorOccurred
onErrorOccurred(details) ==
    /\ clock' = clock + 1
    /\ history' = history (+) SetToBag({Event("errored", details)})
    /\ IF Tracked(details)
       THEN LET id == details.requestId
                log == Assign(Assign(pendingRequests[id], "status", 0),
                              "error", details.error)
            IN /\ pendingRequests' = Delete(pendingRequests, id)
               /\ SetSerializer(saveLog(Serializer, log))
               /\ expected' = ApplySnapshot(expected, log)
       ELSE UNCHANGED << pendingRequests, isSaving, saveQueue, passes,
                         enqueued, started, finished, expected >>
    /\ UNCHANGED << isRecording, logs, toggleReads, timers, nToggles, nInstalls >>
    /\ UNCHANGED ruleVars

\* setTimeout(() => { delete pendingRequests[details.requestId]; }, 2000)
PurgeTimer(id) ==
    /\ BagIn(id, timers)
    /\ timers' = timers (-) SetToBag({id})
    /\ pendingRequests' = Delete(pendingRequests, id)
    /\ UNCHANGED << isRecording, logs, isSaving, saveQueue, toggleReads, passes,
                    history, clock, enqueued, started, finished, nToggles,
                    nInstalls, expected >>
    /\ UNCHANGED ruleVars

\* The UI switches recording: chrome.storage.local.set({ isRecording }).
SetRecording ==
    /\ clock' = clock + 1
    /\ nToggles' = nToggles + 1
    /\ isRecording' = ~isRecording
    /\ UNCHANGED << logs, pendingRequests, isSaving, saveQueue, toggleReads,
                    passes, timers, history, enqueued, started, finished,
                    nInstalls, expected >>
    /\ UNCHANGED ruleVars

\* chrome.runtime.onInstalled
onInstalled ==
    /\ clock' = clock + 1
    /\ nInstalls' = nInstalls + 1
    /\ isRecording' = FALSE
    /\ logs' = << >>
    /\ ruleCalls' = ruleCalls (+) SetToBag({[kind |-> "install", msg |-> 0,
                                            removeRuleIds |-> {1},
                                            addRules |-> << >>]})
    /\ UNCHANGED << pendingRequests, isSaving, saveQueue, toggleReads, passes,
                    timers, history, enqueued, started, finished, nToggles,
                    expected >>
    /\ UNCHANGED << sessionRules, responses, applied, nMessages, settled >>

-----------------------------------------------------------------------------
(* The override rule manager. *)

HeaderLists ==
    { << [key |-> "Cookie", value |-> "a=b"] >>,
      << [name |-> "Origin", value |-> "https://api.x"],
         [key |-> "Cookie", name |-> "X-Ignored", value |-> "c=d"] >> }

MessageUrls == { UrlA, UrlB }

\* h.key || h.name
HeaderName(h) == IF Has(h, "key") /\ h.key # "" THEN h.key ELSE h.name

\* headers.map(h => ({ header, operation: SET, value }))
ModifyHeaders(headers) ==
    [i \in 1 .. Len(headers) |->
        [header |-> HeaderName(headers[i]), operation |-> "set",
         value |-> headers[i].value]]

MakeRule(message) ==
    [id |-> RULE_ID,
     priority |-> RULE_PRIORITY,
     action |-> [type |-> "modifyHeaders",
                 requestHeaders |-> ModifyHeaders(message.headers)],
     condition |-> [urlFilter |-> SplitQuery(message.url),
                    resourceTypes |-> << "xmlhttprequest" >>]]

\* the update without removeRuleIds: the new rule is added beside the old one
SetRuleUpdateNoRemove(message) ==
    [removeRuleIds |-> {}, addRules |-> << MakeRule(message) >>]

\* the argument of updateSessionRules in the SET_REQUEST_HEADERS branch
SetRuleUpdate(message) ==
    [removeRuleIds |-> {RULE_ID}, addRules |-> << MakeRule(message) >>]

\* the removal of another rule id than the one the SET branch installs
ClearRuleUpdateOtherId == [removeRuleIds |-> {2}, addRules |-> << >>]

\* the argument of updateSessionRules in the CLEAR_REQUEST_HEADERS branch
ClearRuleUpdate == [removeRuleIds |-> {1}, addRules |-> << >>]

\* chrome.runtime.onMessage, SET_REQUEST_HEADERS
onSetRequestHeaders(message) ==
    /\ clock' = clock + 1
    /\ nMessages' = nMessages + 1
    /\ ruleCalls' = ruleCalls (+) SetToBag({
           Spread(SetRuleUpdate(message),
                  [kind |-> "set", msg |-> nMessages + 1, message |-> message])})
    /\ UNCHANGED << sessionRules, responses, applied, settled >>
    /\ UNCHANGED logVars
    /\ UNCHANGED nInstalls

\* chrome.runtime.onMessage, CLEAR_REQUEST_HEADERS
onClearRequestHeaders ==
    /\ clock' = clock + 1
    /\ nMessages' = nMessages + 1
    /\ ruleCalls' = ruleCalls (+) SetToBag({
           Spread(ClearRuleUpdate, [kind |-> "clear", msg |-> nMessages + 1])})
    /\ UNCHANGED << sessionRules, responses, applied, settled >>
    /\ UNCHANGED logVars
    /\ UNCHANGED nInstalls

\* updateSessionRules: the listed ids are removed, then the rules are added,
\* as one step.
UpdateSessionRules(rules, call) ==
    SelectSeq(rules, LAMBDA r : r.id \notin call.removeRuleIds) \o call.addRules

\* .then(() => sendResponse({ success: true }))
Resolved(call) ==
    IF call.kind \in {"set", "clear"}
    THEN << [msg |-> call.msg, type |-> call.kind,
             response |-> [success |-> TRUE]] >>
    ELSE << >>

\* the SET_REQUEST_HEADERS branch without its .catch: a rejection is not answered
RejectedSilent(call) == << >>

\* .catch(err => sendResponse({ success: false, error: err.message }))
Rejected(call) ==
    IF call.kind = "set"
    THEN << [msg |-> call.msg, type |-> call.kind,
             response |-> [success |-> FALSE, error |-> "rule rejected"]] >>
    ELSE << >>

\* the backend applies an update and resolves its promise
RuleCallResolves(call) ==
    /\ BagIn(call, ruleCalls)
    /\ ruleCalls' = ruleCalls (-) SetToBag({call})
    /\ sessionRules' = UpdateSessionRules(sessionRules, call)
    /\ applied' = call
    /\ settled' = Append(settled, [msg |-> call.msg, kind |-> call.kind,
                                    outcome |-> "applied"])
    /\ responses' = responses \o Resolved(call)
    /\ UNCHANGED logVars
    /\ UNCHANGED << clock, nMessages, nInstalls >>

\* the backend refuses an update and rejects its promise
RuleCallRejects(call) ==
    /\ BagIn(call, ruleCalls)
    /\ ruleCalls' = ruleCalls (-) SetToBag({call})
    /\ responses' = responses \o Rejected(call)
    /\ settled' = Append(settled, [msg |-> call.msg, kind |-> call.kind,
                                    outcome |-> "rejected"])
    /\ UNCHANGED << sessionRules, applied >>
    /\ UNCHANGED logVars
    /\ UNCHANGED << clock, nMessages, nInstalls >>

-----------------------------------------------------------------------------
(* The specifications. *)

InitialRules ==
    { << >>,
      << MakeRule([url |-> UrlA, headers |-> << [key |-> "Cookie", value |-> "old"] >>]) >> }

\* A worker that starts: its memory is fresh.
Fresh ==
    /\ pendingRequests = EmptyObject
    /\ isSaving = FALSE
    /\ saveQueue = << >>
    /\ toggleReads = EmptyBag
    /\ passes = {}
    /\ timers = EmptyBag
    /\ ruleCalls = EmptyBag
    /\ responses = << >>
    /\ history = EmptyBag
    /\ clock = 0
    /\ enqueued = 0
    /\ started = << >>
    /\ finished = << >>
    /\ applied = [kind |-> "none"]
    /\ nToggles = 0
    /\ nInstalls = 0
    /\ nMessages = 0
    /\ settled = << >>

\* The recorder starts on the storage earlier activations left.
Init ==
    /\ Fresh
    /\ isRecording \in BOOLEAN
    /\ logs \in InitialLogs
    /\ expected = logs
    /\ sessionRules = << >>

\* The rule manager starts on the session rules earlier activations left.
InitRules ==
    /\ Fresh
    /\ isRecording = FALSE
    /\ logs = << >>
    /\ expected = logs
    /\ sessionRules \in InitialRules

Deliver ==
    \E id \in Ids :
        \/ \E phase \in AsyncPhases :
              \E details \in PhaseDetails(phase, id) : Listener(phase, details)
        \/ \E details \in CompletedDetails(id) : onCompleted(details)
        \/ \E details \in ErrorDetails(id) : onErrorOccurred(details)

Resume ==
    \/ \E r \in BagToSet(toggleReads) : ToggleRead(r)
    \/ \E r \in BagToSet(toggleReads) : ToggleCallback(r)
    \/ \E p \in passes : LogsGetCallback(p)
    \/ \E p \in passes : LogsSetCallback(p)
    \/ \E id \in BagToSet(timers) : PurgeTimer(id)

Backend ==
    \/ \E call \in BagToSet(ruleCalls) : RuleCallResolves(call)
    \/ \E call \in BagToSet(ruleCalls) : RuleCallRejects(call)

Control ==
    \/ \E url \in MessageUrls, headers \in HeaderLists :
          onSetRequestHeaders([type |-> "SET_REQUEST_HEADERS", url |-> url,
                               headers |-> headers])
    \/ onClearRequestHeaders

\* The recorder: lifecycle events in any order, the toggle, installation.
Input == Deliver \/ SetRecording \/ onInstalled

Next == (clock < MaxInputs /\ Input) \/ Resume

Spec == Init /\ [][Next]_vars

\* The rule manager: control messages, installation, the rule backend.
InputRules == Control \/ onInstalled

NextRules == (clock < MaxInputs /\ InputRules) \/ Backend

SpecRules == InitRules /\ [][NextRules]_vars

\* One request: the webRequest layer delivers the events of a request in the
\* order of its life cycle; the listeners' callbacks resume in any order.
LifecyclePhases == << "begin", "sendHeaders", "headersReceived", "completed" >>

Accepted(phase, id) ==
    IF phase = "completed"
    THEN { d \in CompletedDetails(id) : isApiRequest(d) }
    ELSE { d \in PhaseDetails(phase, id) : ~Filtered(phase, d) }

DeliverNextPhase ==
    /\ clock < Len(LifecyclePhases)
    /\ \E id \in Ids :
          /\ \A e \in BagToSet(history) : e.details.requestId = id
          /\ \E details \in Accepted(LifecyclePhases[clock + 1], id) :
                IF LifecyclePhases[clock + 1] = "completed"
                THEN onCompleted(details)
                ELSE Listener(LifecyclePhases[clock + 1], details)

InitLifecycle ==
    /\ Fresh
    /\ isRecording = TRUE
    /\ logs \in InitialLogs
    /\ expected = logs
    /\ sessionRules = << >>

NextLifecycle == DeliverNextPhase \/ Resume

SpecLifecycle == InitLifecycle /\ [][NextLifecycle]_vars


\* One request, each event delivered once the one before is fully processed:
\* no listener is suspended, the queue is empty and no pass is in flight.
Quiescent == toggleReads = EmptyBag /\ saveQueue = << >> /\ passes = {}

InitSequential ==
    /\ Fresh
    /\ isRecording = TRUE
    /\ logs = << >>
    /\ expected = logs
    /\ sessionRules = << >>

NextSequential == (Quiescent /\ DeliverNextPhase) \/ Resume

SpecSequential == InitSequential /\ [][NextSequential]_vars

\* One request on an empty store, the listeners' callbacks resuming in any
\* order, with a storage backend that answers: a get or set of `logs` that
\* processQueue issued is called back eventually.
LogsCallbacksFire ==
    /\ WF_vars(\E p \in passes : LogsGetCallback(p))
    /\ WF_vars(\E p \in passes : LogsSetCallback(p))

SpecFair == InitSequential /\ [][NextLifecycle]_vars /\ LogsCallbacksFire

-----------------------------------------------------------------------------
(* The write serializer: mutual exclusion and order. *)

\* C1: at most one read-merge-write pass against `logs` is in flight in any
\* reachable state: the passes suspended in the backend get or set number at
\* most one, and isSaving is held exactly while one is.
C1_OnePassInFlight ==
    /\ Cardinality(passes) <= 1
    /\ isSaving <=> (passes # {})

\* a pass waits for its write-back while two later snapshots wait in the queue
C1_Witness ==
    /\ \E p \in passes : p.stage = "set"
    /\ Len(saveQueue) >= 2

Sn(seq) == [i \in 1 .. Len(seq) |-> seq[i].sn]

Upto(n) == [i \in 1 .. n |-> i]

\* C2: snapshots are applied in the order saveLog enqueued them: the passes
\* begin in enqueue order and end in enqueue order, the pass of a snapshot begins
\* only when the passes of all snapshots enqueued before it have ended, and the
\* snapshots still queued are the later ones, in order.
C2_AppliedInEnqueueOrder ==
    /\ started = Upto(Len(started))
    /\ Sn(finished) = Upto(Len(finished))
    /\ Len(finished) <= Len(started)
    /\ Len(started) <= Len(finished) + 1
    /\ \A p \in passes : p.sn = Len(started) /\ Len(finished) = p.sn - 1
    /\ \A i \in 1 .. Len(saveQueue) : saveQueue[i].sn = Len(started) + i
    /\ Len(started) + Len(saveQueue) = enqueued

\* one snapshot is applied, the second is in flight, the third waits, and the
\* three are snapshots of one identifier
C2_Witness ==
    /\ Len(finished) = 1
    /\ Len(saveQueue) = 1
    /\ \E p \in passes :
          /\ p.logToSave.id = finished[1].id
          /\ saveQueue[1].log.id = p.logToSave.id

-----------------------------------------------------------------------------
(* The record store. *)

StoredIds(store) == { store[i].id : i \in 1 .. Len(store) }

\* C4: the persisted logs never hold more than MAX_LOGS records.
C4_LogsBounded == Len(logs) <= MAX_LOGS

\* a new identifier was inserted into a store that was full: the store is
\* still full and the new record is at its head
C4_Witness ==
    /\ Len(logs) = MAX_LOGS
    /\ logs[1].id \in Ids
    /\ \E i \in 1 .. Len(finished) : finished[i].how = "prepended"
    /\ passes = {}

\* C5: a snapshot that has a url and whose identifier the store does not hold
\* is written as the new record at the head followed by the records the pass
\* read, in their order; when the pass read MAX_LOGS records exactly one is
\* left out, the last, and below MAX_LOGS none is.  With no pass in flight and
\* no installation, the store begins with the record of the last insertion.
C5_PrependEvictsOldest ==
    /\ \A p \in passes :
          (/\ p.stage = "set"
           /\ p.logToSave.id \notin StoredIds(p.currentLogs)
           /\ "url" \in DOMAIN p.logToSave)
          => /\ p.newLogs[1] = p.logToSave
             /\ Len(p.newLogs) =
                   IF Len(p.currentLogs) = MAX_LOGS
                   THEN MAX_LOGS ELSE Len(p.currentLogs) + 1
             /\ \A i \in 2 .. Len(p.newLogs) : p.newLogs[i] = p.currentLogs[i - 1]
    /\ (/\ passes = {}
        /\ nInstalls = 0
        /\ finished # << >>
        /\ finished[Len(finished)].how = "prepended")
       => /\ logs # << >>
          /\ logs[1].id = finished[Len(finished)].id

\* a record was inserted into the full store: the old tail record of request 1
\* is gone and the filler before it is the last record now
C5_Witness ==
    /\ Len(logs) = MAX_LOGS
    /\ logs[1].id \in Ids
    /\ logs[MAX_LOGS] = Filler(MAX_LOGS - 1)
    /\ passes = {}

\* C6: a snapshot without a url whose identifier the store does not hold is
\* never added: no pass writes back a store to which it added such a snapshot,
\* every stored record has a url, and with no pass in flight and no
\* installation the store does not hold the identifier of the snapshot that
\* was dropped last.
C6_NoUrlNeverInserted ==
    /\ \A i \in 1 .. Len(logs) : "url" \in DOMAIN logs[i]
    /\ \A p \in passes :
          (p.stage = "set" /\ p.logToSave.id \notin StoredIds(p.currentLogs))
          => "url" \in DOMAIN p.logToSave
    /\ (/\ passes = {}
        /\ nInstalls = 0
        /\ finished # << >>
        /\ finished[Len(finished)].how = "dropped")
       => finished[Len(finished)].id \notin StoredIds(logs)

\* the record of request 1 was evicted by the insertion of request 2, and a
\* later header snapshot of request 1, which has no url, was dropped
C6_Witness ==
    /\ Len(logs) = MAX_LOGS
    /\ logs[1].id = 2
    /\ 1 \notin StoredIds(logs)
    /\ \E i \in 1 .. Len(finished) :
          finished[i].how = "dropped" /\ finished[i].id = 1
    /\ passes = {}

-----------------------------------------------------------------------------
(* The override rule. *)

RulesWithId(id) == { i \in 1 .. Len(sessionRules) : sessionRules[i].id = id }

\* what a rule must carry for a SET_REQUEST_HEADERS message: the url up to its
\* query as the filter, and one SET operation per header of the message, named
\* by the header's key, or by its name when it has no key
CarriesMessage(rule, message) ==
    LET filter == rule.condition.urlFilter
        ops == rule.action.requestHeaders
    IN /\ \A i \in 1 .. Len(filter) : filter[i] = message.url[i] /\ filter[i] # "?"
       /\ Len(filter) <= Len(message.url)
       /\ Len(filter) < Len(message.url) => message.url[Len(filter) + 1] = "?"
       /\ Len(ops) = Len(message.headers)
       /\ \A i \in 1 .. Len(ops) :
             /\ ops[i].value = message.headers[i].value
             /\ ops[i].header =
                   IF "key" \in DOMAIN message.headers[i]
                   THEN message.headers[i].key ELSE message.headers[i].name

\* C7: the active rule set never holds more than one rule with the id 1; when
\* the update the backend applied last is that of a SET_REQUEST_HEADERS message,
\* the rule set is exactly one rule, it has the id 1 and it carries the header
\* list and the url filter of that message, whatever was set before.
C7_SingleRule ==
    /\ Cardinality(RulesWithId(1)) <= 1
    /\ applied.kind = "set"
       => /\ Len(sessionRules) = 1
          /\ sessionRules[1].id = 1
          /\ CarriesMessage(sessionRules[1], applied.message)

\* two SET_REQUEST_HEADERS messages were applied one after the other, the
\* second with another url and another header list than the first
C7_Witness ==
    /\ applied.kind = "set"
    /\ applied.msg = 2
    /\ Len(responses) = 2
    /\ responses[1] = [msg |-> 1, type |-> "set", response |-> [success |-> TRUE]]
    /\ responses[2] = [msg |-> 2, type |-> "set", response |-> [success |-> TRUE]]
    /\ applied.message.url = UrlB
    /\ Len(applied.message.headers) = 2
    /\ Len(sessionRules) = 1

\* C8: once the update of a CLEAR_REQUEST_HEADERS message is the one applied
\* last, in particular after that of a SET_REQUEST_HEADERS message, no rule is
\* active: no rule with the id 1 remains.
C8_ClearLeavesNoRule ==
    applied.kind = "clear" => RulesWithId(1) = {} /\ sessionRules = << >>

\* a SET_REQUEST_HEADERS was applied and answered, then the CLEAR
C8_Witness ==
    /\ applied.kind = "clear"
    /\ applied.msg = 2
    /\ Len(responses) = 2
    /\ responses[1] = [msg |-> 1, type |-> "set", response |-> [success |-> TRUE]]
    /\ responses[2].msg = 2
    /\ nInstalls = 0

-----------------------------------------------------------------------------
(* The recording toggle. *)

\* the step is the callback of the toggle read r
CallbackOf(r) == toggleReads' = toggleReads (-) SetToBag({r})

\* the step is the delivery of the lifecycle event e to its listener
DeliveryOf(e) == history' = history (+) SetToBag({e})

Untouched ==
    /\ pendingRequests' = pendingRequests
    /\ saveQueue' = saveQueue
    /\ enqueued' = enqueued
    /\ passes' = passes
    /\ logs' = logs

-----------------------------------------------------------------------------
(* The correlation of one request. *)

\* the four events of the request are delivered and nothing is left to run
LifecycleDone == clock = Len(LifecyclePhases) /\ Quiescent

Delivered(phase) == CHOOSE e \in BagToSet(history) : e.phase = phase

\* map holds, for every header of the list, its value ('' when it has none)
HoldsHeaders(map, list) ==
    \A i \in 1 .. Len(list) :
        /\ list[i].name \in DOMAIN map
        /\ map[list[i].name] =
              IF "value" \in DOMAIN list[i] THEN list[i].value ELSE ""

\* map holds the headers of the list and no other
IsHeaders(map, list) ==
    /\ HoldsHeaders(map, list)
    /\ DOMAIN map = { list[i].name : i \in 1 .. Len(list) }

\* C3: with recording on and the request a tracked API request, whatever the
\* order in which the toggle reads of the begin, request-headers and
\* response-headers listeners resume, once the four events are delivered and
\* the save queue has drained the stored record of the request has the url and
\* method of begin, the status code of completed, and the request and response
\* headers of the two header events.
C3_UnionStored ==
    LifecycleDone =>
        LET id == Delivered("begin").details.requestId
        IN \E i \in 1 .. Len(logs) :
              /\ logs[i].id = id
              /\ logs[i].url = Delivered("begin").details.url
              /\ logs[i].method = Delivered("begin").details.method
              /\ logs[i].status = Delivered("completed").details.statusCode
              /\ HoldsHeaders(logs[i].requestHeaders,
                              Delivered("sendHeaders").details.requestHeaders)
              /\ HoldsHeaders(logs[i].responseHeaders,
                              Delivered("headersReceived").details.responseHeaders)

\* C10: begin, request-headers-sent, response-headers-received and completed
\* of one request, each fully processed before the next is delivered, with
\* recording on and an empty store: the store ends as exactly one record, with
\* the url and method of begin, the status code of completed, the request
\* headers of the one header event and the response headers of the other.
C10_SequentialRecord ==
    LifecycleDone =>
        /\ Len(logs) = 1
        /\ logs[1].id = Delivered("begin").details.requestId
        /\ logs[1].url = Delivered("begin").details.url
        /\ logs[1].method = Delivered("begin").details.method
        /\ logs[1].status = Delivered("completed").details.statusCode
        /\ IsHeaders(logs[1].requestHeaders,
                     Delivered("sendHeaders").details.requestHeaders)
        /\ IsHeaders(logs[1].responseHeaders,
                     Delivered("headersReceived").details.responseHeaders)

\* the four events are processed: the record has its final status
C10_Witness ==
    /\ LifecycleDone
    /\ Len(logs) = 1
    /\ logs[1].status = 200
    /\ "Accept" \in DOMAIN logs[1].requestHeaders

-----------------------------------------------------------------------------
(* The status of a record, and the events that are processed. *)

\* C11: the status of a record never reverts.  In every step, for every
\* identifier: a Pending Table entry whose status is not 0 and that is still in
\* the table after the step has the same status, and a stored record whose
\* status is not 0 has the same status in every record of that identifier the
\* store holds after the step.
C11_StatusNeverReverts ==
    [][ /\ \A id \in (DOMAIN pendingRequests) \cap (DOMAIN pendingRequests') :
              pendingRequests[id].status # 0
              => pendingRequests'[id].status = pendingRequests[id].status
        /\ \/ logs' = logs
           \/ \A i \in 1 .. Len(logs) : \A j \in 1 .. Len(logs') :
                 (logs[i].status # 0 /\ logs'[j].id = logs[i].id)
                 => logs'[j].status = logs[i].status ]_vars

\* the event e passes the rejection checks: recording is on, the request is
\* not the extension's own and its type is the tracked API type
PassesChecks(e) ==
    /\ isRecording
    /\ ~isExtensionRequest(e.details)
    /\ isApiRequest(e.details)

\* the snapshot the step enqueued is one of identifier id
EnqueuedOne(id) ==
    /\ enqueued' = enqueued + 1
    /\ \/ \E i \in 1 .. Len(saveQueue') :
             saveQueue'[i].sn = enqueued' /\ saveQueue'[i].log.id = id
       \/ \E p \in passes' : p.sn = enqueued' /\ p.logToSave.id = id

\* C12: every lifecycle event that passes the rejection checks, in any of the
\* five phases, leaves a Pending Table entry for its identifier and enqueues
\* exactly one snapshot of it: the callback of a begin or headers listener
\* whose toggle read returned true, and the delivery of a completed or errored
\* event of the API type while recording is on.
C12_EveryPhaseEnqueues ==
    [][ /\ \A r \in BagToSet(toggleReads) :
              (r.result = "on" /\ CallbackOf(r))
              => /\ r.details.requestId \in DOMAIN pendingRequests'
                 /\ EnqueuedOne(r.details.requestId)
        /\ \A e \in BagToSet(history') :
              (/\ e.phase \in {"completed", "errored"}
               /\ DeliveryOf(e)
               /\ PassesChecks(e))
              => /\ e.details.requestId \in DOMAIN pendingRequests'
                 /\ EnqueuedOne(e.details.requestId) ]_vars

-----------------------------------------------------------------------------
(* The answers to the control messages. *)

\* the positions in `responses` of the answers to message n
ResponsesTo(n) == { i \in 1 .. Len(responses) : responses[i].msg = n }

\* C13: a SET_REQUEST_HEADERS message whose rule change the backend rejected
\* has exactly one response, {success: false, error: <message>}; one whose rule
\* change was applied has exactly one response, {success: true}; none has a
\* response before its change is settled; and no call is issued again: every
\* message and every installation has issued one updateSessionRules call, which
\* is either pending or settled once.
C13_SetAnsweredOnce ==
    /\ \A i \in 1 .. Len(settled) :
          settled[i].kind = "set"
          => /\ Cardinality(ResponsesTo(settled[i].msg)) = 1
             /\ \A j \in ResponsesTo(settled[i].msg) :
                   IF settled[i].outcome = "applied"
                   THEN /\ DOMAIN responses[j].response = {"success"}
                        /\ responses[j].response.success = TRUE
                   ELSE /\ DOMAIN responses[j].response = {"success", "error"}
                        /\ responses[j].response.success = FALSE
    /\ \A call \in BagToSet(ruleCalls) :
          call.kind # "install"
          => /\ CopiesIn(call, ruleCalls) = 1
             /\ ResponsesTo(call.msg) = {}
             /\ \A i \in 1 .. Len(settled) :
                   settled[i].kind = "install" \/ settled[i].msg # call.msg
    /\ \A i \in 1 .. Len(settled) : \A j \in 1 .. Len(settled) :
          (settled[i].kind # "install" /\ settled[i].msg = settled[j].msg) => i = j
    /\ BagCardinality(ruleCalls) + Len(settled) = nMessages + nInstalls

\* one SET_REQUEST_HEADERS was rejected and answered with the error, another
\* was applied and answered with success
C13_Witness ==
    /\ \E i \in 1 .. Len(settled) :
          settled[i].kind = "set" /\ settled[i].outcome = "rejected"
    /\ \E i \in 1 .. Len(settled) :
          settled[i].kind = "set" /\ settled[i].outcome = "applied"
    /\ Len(responses) = 2
    /\ ruleCalls = EmptyBag

\* C14: every CLEAR_REQUEST_HEADERS message whose rule removal the backend has
\* settled, applied or rejected, has a response of the form {success: bool}.
C14_ClearAnswered ==
    \A i \in 1 .. Len(settled) :
        settled[i].kind = "clear"
        => \E j \in ResponsesTo(settled[i].msg) :
              /\ DOMAIN responses[j].response = {"success"}
              /\ responses[j].response.success \in BOOLEAN

-----------------------------------------------------------------------------
(* The writers of `logs`, and the life of a Pending Table entry. *)

\* C15: every write to `logs` goes through the write serializer, so no write
\* to `logs`, the installation reset included, falls between the backend read
\* and the write-back of a pass in flight: while a pass waits for its
\* write-back, `logs` is still the list that the pass read.
C15_NoWriteDuringPass ==
    \A p \in passes : p.stage = "set" => logs = p.currentLogs

\* C16: the processing of a completed or an errored event does not remove the
\* Pending Table entry of its identifier: after the step the entry is present,
\* with the url, method and headers it had, and its removal is left to a purge
\* timer armed by the step.
C16_EntryKeptForGrace ==
    [][ \A e \in BagToSet(history') :
           (/\ e.phase \in {"completed", "errored"}
            /\ DeliveryOf(e)
            /\ Tracked(e.details))
           => LET id == e.details.requestId
              IN /\ id \in DOMAIN pendingRequests'
                 /\ \A k \in (DOMAIN pendingRequests[id]) \ {"status", "error"} :
                       /\ k \in DOMAIN pendingRequests'[id]
                       /\ pendingRequests'[id][k] = pendingRequests[id][k]
                 /\ timers' = timers (+) SetToBag({id}) ]_vars

\* C17: once the four events of a request are delivered, completed included,
\* and every suspended listener, every pass and every purge timer has run, the
\* Pending Table holds no entry.
C17_EntryPurged ==
    (LifecycleDone /\ timers = EmptyBag) => pendingRequests = EmptyObject

-----------------------------------------------------------------------------
(* The merge in place. *)

\* C18: a pass whose snapshot has an identifier that the list it read holds
\* writes back a list of the same length in which every record is at the
\* position it had: the records of other positions are unchanged, none is
\* evicted, and the record of that identifier has the fields of the snapshot
\* over the fields it had.
C18_MergeInPlace ==
    \A p \in passes :
        (p.stage = "set" /\ p.logToSave.id \in StoredIds(p.currentLogs))
        => /\ Len(p.newLogs) = Len(p.currentLogs)
           /\ \E idx \in 1 .. Len(p.currentLogs) :
                 /\ p.currentLogs[idx].id = p.logToSave.id
                 /\ \A i \in 1 .. Len(p.currentLogs) :
                       i # idx => p.newLogs[i] = p.currentLogs[i]
                 /\ DOMAIN p.newLogs[idx] =
                       (DOMAIN p.currentLogs[idx]) \cup (DOMAIN p.logToSave)
                 /\ \A k \in DOMAIN p.newLogs[idx] :
                       p.newLogs[idx][k] =
                          IF k \in DOMAIN p.logToSave
                          THEN p.logToSave[k] ELSE p.currentLogs[idx][k]

\* the begin snapshot of request 1 was merged into the record of request 1 at
\* the tail of the full store: the record is still the last one, with the url
\* of the begin event, and the head of the store is the record it was
C18_Witness ==
    /\ passes = {}
    /\ nInstalls = 0
    /\ Len(logs) = MAX_LOGS
    /\ logs[1] = Filler(1)
    /\ logs[MAX_LOGS].id = 1
    /\ logs[MAX_LOGS].url = UrlA
    /\ finished # << >>
    /\ finished[Len(finished)].how = "merged"

-----------------------------------------------------------------------------
(* Switching recording off. *)

\* the pass p ends in this step
EndOf(p) == p \in passes /\ p \notin passes'

\* C19: switching recording off does not cancel an event that is past the
\* toggle check.  While isRecording is false: the callback of a begin or
\* headers listener whose toggle read returned true still fills the Pending
\* Table entry and enqueues one snapshot; a pass that has read the store goes
\* on to its write-back with the same snapshot, except for the snapshot without
\* url of an identifier the store does not hold, which is dropped as always;
\* and the write-back stores the list of the pass, in which the record of the
\* snapshot's identifier has the snapshot's fields.  A callback whose toggle
\* read returned false records nothing.
C19_OffDoesNotCancel ==
    [][ /\ \A r \in BagToSet(toggleReads) :
              (r.result = "on" /\ ~isRecording /\ CallbackOf(r))
              => /\ r.details.requestId \in DOMAIN pendingRequests'
                 /\ EnqueuedOne(r.details.requestId)
        /\ \A p \in passes :
              (~isRecording /\ EndOf(p))
              => IF p.stage = "get"
                 THEN \/ \E q \in passes' :
                            /\ q.stage = "set"
                            /\ q.sn = p.sn
                            /\ q.logToSave = p.logToSave
                      \/ /\ p.logToSave.id \notin StoredIds(logs)
                         /\ "url" \notin DOMAIN p.logToSave
                 ELSE /\ logs' = p.newLogs
                      /\ \E i \in 1 .. Len(logs') :
                            /\ logs'[i].id = p.logToSave.id
                            /\ \A k \in DOMAIN p.logToSave :
                                  logs'[i][k] = p.logToSave[k]
        /\ \A r \in BagToSet(toggleReads) :
              (r.result = "off" /\ CallbackOf(r))
              => /\ enqueued' = enqueued
                 /\ pendingRequests' = pendingRequests
                 /\ logs' = logs ]_vars

\* one event and one switch are all the inputs, recording is off now, and the
\* store holds a record of the event whose entry was created after both inputs
\* (its timestamp is the time after them): the toggle was read as true, then
\* switched off, and the callback and the pass ran after the switch
C19_Witness ==
    /\ clock = 2
    /\ nToggles = 1
    /\ nInstalls = 0
    /\ ~isRecording
    /\ passes = {}
    /\ saveQueue = << >>
    /\ \E i \in 1 .. Len(logs) :
          /\ logs[i].id \in Ids
          /\ logs[i].timestamp = 2
          /\ logs[i].url = UrlA

-----------------------------------------------------------------------------
(* The serializer against the sequential application of the snapshots. *)

\* C20: no update is lost.  Whenever the queue is empty and no pass is in
\* flight, and no installation has written `logs`, the persisted `logs` is the
\* list obtained from the initial `logs` by applying the merge, drop or
\* prepend-and-evict step once per enqueued snapshot, in enqueue order,
\* whatever the order in which the backend callbacks ran.
C20_NoUpdateLost ==
    (saveQueue = << >> /\ passes = {} /\ nInstalls = 0) => logs = expected

\* three snapshots were enqueued and their three passes have ended; the store
\* was full, and it begins with a new record that has its final status
C20_Witness ==
    /\ saveQueue = << >>
    /\ passes = {}
    /\ nInstalls = 0
    /\ enqueued = 3
    /\ Len(finished) = 3
    /\ Len(logs) = MAX_LOGS
    /\ logs[1].id \in Ids
    /\ logs[1].status = 200

-----------------------------------------------------------------------------
(* The progress of the serializer. *)

\* C21: the serializer never stalls.  A queue that is not empty always has a
\* pass in flight that holds the saving flag; and provided every backend get
\* and set callback fires eventually, every enqueued snapshot is eventually
\* dequeued and its pass ended, applied or dropped, and the serializer
\* eventually stays at an empty queue with isSaving = false.
C21_NeverStalls ==
    /\ [](saveQueue # << >> => (isSaving /\ passes # {}))
    /\ \A n \in 1 .. Len(LifecyclePhases) :
          (enqueued >= n) ~> (Len(started) >= n /\ Len(finished) >= n)
    /\ <>[](saveQueue = << >> /\ ~isSaving)

\* a snapshot without url was dropped while a later snapshot waited in the
\* queue; the flag was released, the later snapshot was applied, and the
\* serializer is at rest
C21_Witness ==
    /\ \E i \in 1 .. (Len(finished) - 1) :
          /\ finished[i].how = "dropped"
          /\ finished[i + 1].how \in {"merged", "prepended"}
    /\ Len(finished) = enqueued
    /\ saveQueue = << >>
    /\ ~isSaving
    /\ passes = {}

-----------------------------------------------------------------------------
(* The snapshots in the queue. *)

\* the snapshots that wait in the queue or are held by a pass, with their
\* enqueue numbers
Held == { [sn |-> saveQueue[i].sn, log |-> saveQueue[i].log] :
             i \in 1 .. Len(saveQueue) }
        \cup { [sn |-> p.sn, log |-> p.logToSave] : p \in passes }

\* C22: an enqueued snapshot is isolated from later changes of the Pending
\* Table.  The snapshot a saveLog call enqueues has the fields of the pending
\* entry at that call (for an errored event, whose entry is deleted in the
\* same listener, the fields of the entry with status 0 and the error); a
\* snapshot that waits in the queue or is held by a pass keeps every field
\* through every step, whatever the step does to the Pending Table; and the
\* write-back of its pass stores these fields in the record of its identifier.
C22_SnapshotIsolated ==
    [][ /\ enqueued' = enqueued + 1
           => \E h \in Held' :
                 /\ h.sn = enqueued'
                 /\ IF h.log.id \in DOMAIN pendingRequests'
                    THEN h.log = pendingRequests'[h.log.id]
                    ELSE /\ h.log.id \in DOMAIN pendingRequests
                         /\ h.log.status = 0
                         /\ "error" \in DOMAIN h.log
                         /\ \A k \in (DOMAIN pendingRequests[h.log.id])
                                        \ {"status", "error"} :
                               /\ k \in DOMAIN h.log
                               /\ h.log[k] = pendingRequests[h.log.id][k]
        /\ \A h \in Held :
              \/ h \in Held'
              \/ \E p \in passes :
                    /\ p.sn = h.sn
                    /\ EndOf(p)
                    /\ \/ p.stage = "get"
                       \/ \E i \in 1 .. Len(logs') :
                             /\ logs'[i].id = h.log.id
                             /\ \A k \in DOMAIN h.log : logs'[i][k] = h.log[k] ]_vars

\* the pass of a begin snapshot waits for its write-back with status 0 and no
\* request headers, while the pending entry of the request has meanwhile
\* received its request headers and the status of completed
C22_Witness ==
    \E p \in passes :
        /\ p.stage = "set"
        /\ p.logToSave.status = 0
        /\ p.logToSave.requestHeaders = EmptyObject
        /\ p.logToSave.id \in DOMAIN pendingRequests
        /\ pendingRequests[p.logToSave.id].status = 200
        /\ pendingRequests[p.logToSave.id].requestHeaders # EmptyObject

-----------------------------------------------------------------------------
(* The identifiers of the store. *)

\* C23: no two records of the persisted `logs` have the same id, in every
\* reachable state: the identifiers of the store number its records.
C23_UniqueIds == Cardinality(StoredIds(logs)) = Len(logs)

\* three snapshots of one request were applied to a store one record short of
\* full, the first inserted and the two later ones merged: the store is full
\* and holds the identifier once, at its head
C23_Witness ==
    /\ Len(finished) = 3
    /\ finished[1].how = "prepended"
    /\ finished[2].how = "merged"
    /\ finished[3].how = "merged"
    /\ \A i \in 1 .. 3 : finished[i].id = 1
    /\ Len(logs) = MAX_LOGS
    /\ logs[1].id = 1
    /\ nInstalls = 0
    /\ passes = {}

====
